---- MODULE Spec2Model ----
(***************************************************************************)
(* Model of store_server.py: a Flask server over two SQLite tables, items  *)
(* (amount available per item) and bookings (item_id, amount, confirmed),  *)
(* with request handlers running in parallel threads and a background      *)
(* asyncio loop that cancels a booking some time after it was made.        *)
(*                                                                         *)
(* A database transaction (from the first UPDATE/INSERT/DELETE of a        *)
(* connection to its commit) is one step: SQLite serialises writers and    *)
(* other connections see only committed data.  A SELECT outside a          *)
(* transaction is a step of its own, so make_booking is three database     *)
(* steps: the SELECT, the UPDATE+INSERT+commit, and the arming of the      *)
(* timer.  The UPDATE of make_booking opens its transaction and takes the  *)
(* database's write lock; what it wrote stays in the connection (journal)  *)
(* until the commit, and a connection dropped before its commit is rolled  *)
(* back.  Handlers are anonymous threads: those past their SELECT are a    *)
(* bag of local states.  A request whose body does not parse is answered   *)
(* 400 before any statement runs and is no step.  What a handler answers   *)
(* is a function of the database state it runs in (BookCheck,              *)
(* CancelResponse, ConfirmResponse).                                       *)
(***************************************************************************)
EXTENDS Integers, FiniteSets, Sequences, Bags, TLC

\* ---- bounds of the model ----
MaxBookings == 2       \* booking rows ever inserted in a run

\* ---- program constants ----
InitAmount == 1000     \* amount of each of the two items inserted by -init

Items == {1, 2}                      \* ids of the rows inserted by -init
NoItem == 3                          \* an item id with no row
ReqItems == Items \cup {NoItem}
BookingIds == 1..MaxBookings
\* quantities a client may send: int(q.get('quantity')) accepts any integer
Quantities == {-1, 0, 1, InitAmount}

VARIABLES
    amount,     \* items.amount, by item id
    bookings,   \* the bookings table: booking_id -> row
    seq,        \* highest booking_id ever assigned
    inflight,   \* the /booking handlers past their SELECT: a bag of their locals
    tasks,      \* check_booking coroutines sleeping in the loop, per booking_id
    wins,       \* per booking_id: the operations that reported rows changed, in order
    fired,      \* per booking_id: how many check_booking coroutines have run
    journal,    \* items.amount as written by the open transaction, not yet committed
    surfaced    \* the last exception that left a handler or a coroutine

vars == <<amount, bookings, seq, inflight, tasks, wins, fired, journal, surfaced>>

\* no transaction is open
NoJournal == << >>

\* an exception out of execute() or commit(): the operation it ended, where
\* in make_booking it was raised, how often the statement had been issued
NoError == [op |-> "none", stage |-> "none", tries |-> 0]
StorageError(op, stage) == [op |-> op, stage |-> stage, tries |-> 1]

\* locals of a /booking handler: where it is, its request, the amount column
\* of the row it read and the booking_id it was given
Handler(pc, item_id, quantity, res, booking_id) ==
    [pc |-> pc, item_id |-> item_id, quantity |-> quantity, res |-> res,
     booking_id |-> booking_id]

\* what a handler answers: 200, or 400 with one of the messages
Ok == "ok"
NoSuchItem == "no such item"
NotEnoughAmount == "not enough amount"
NotCancelable == "This booking cannot be canceled"
NotConfirmable == "This booking cannot be confirmed"

\* ---- the SQL statements ----

\* a row of bookings with confirmed = 0 and this booking_id exists
IsPending(bks, b) == b \in DOMAIN bks /\ bks[b].confirmed = 0

\* the UPDATE of cancel_booking without its two "confirmed = 0" conditions
CancelUpdateItemsAnyState(items, bks, b) ==
    [i \in DOMAIN items |->
        IF b \in DOMAIN bks /\ bks[b].item_id = i
        THEN items[i] + bks[b].amount
        ELSE items[i]]

\* UPDATE items SET amount = amount + (SELECT amount FROM bookings ...)
\*  WHERE id IN (SELECT item_id FROM bookings WHERE booking_id = ? AND confirmed = 0)
CancelUpdateItems(items, bks, b) ==
    [i \in DOMAIN items |->
        IF IsPending(bks, b) /\ bks[b].item_id = i
        THEN items[i] + bks[b].amount
        ELSE items[i]]

\* rows changed by that UPDATE
CancelUpdateCount(items, bks, b) ==
    Cardinality({i \in DOMAIN items : IsPending(bks, b) /\ bks[b].item_id = i})

\* the DELETE of cancel_booking with "confirmed = 1" for "confirmed = 0"
CancelDeleteConfirmed(bks, b) ==
    IF b \in DOMAIN bks /\ bks[b].confirmed = 1
    THEN [x \in DOMAIN bks \ {b} |-> bks[x]]
    ELSE bks

\* the DELETE of cancel_booking without "AND confirmed = 0"
CancelDeleteAnyState(bks, b) == [x \in DOMAIN bks \ {b} |-> bks[x]]

\* DELETE FROM bookings WHERE booking_id = ? AND confirmed = 0
CancelDelete(bks, b) ==
    IF IsPending(bks, b)
    THEN [x \in DOMAIN bks \ {b} |-> bks[x]]
    ELSE bks

\* rows changed by that DELETE
CancelDeleteCount(bks, b) == IF IsPending(bks, b) THEN 1 ELSE 0

\* con.total_changes of cancel_booking
CancelChanges(items, bks, b) ==
    CancelUpdateCount(items, bks, b) + CancelDeleteCount(bks, b)

\* the UPDATE of confirm_booking without "booking_id = ?": once b is
\* pending, every pending row is confirmed
ConfirmUpdateEveryRow(bks, b) ==
    IF IsPending(bks, b)
    THEN [c \in DOMAIN bks |->
             IF bks[c].confirmed = 0 THEN [bks[c] EXCEPT !.confirmed = 1]
             ELSE bks[c]]
    ELSE bks

\* UPDATE bookings SET confirmed = 1 WHERE booking_id = ? AND confirmed = 0
ConfirmUpdate(bks, b) ==
    IF IsPending(bks, b)
    THEN [bks EXCEPT ![b].confirmed = 1]
    ELSE bks

\* the rows the UPDATE of confirm_booking changes without "AND confirmed = 0"
ConfirmChangesAnyState(bks, b) == IF b \in DOMAIN bks THEN 1 ELSE 0

\* con.total_changes of confirm_booking
ConfirmChanges(bks, b) == IF IsPending(bks, b) THEN 1 ELSE 0

\* the check of make_booking off by one
NotEnoughOffByOne(available, quantity) == available + 1 < quantity

\* if res['amount'] < quantity
NotEnough(available, quantity) == available < quantity

\* the two checks of make_booking on the row its SELECT returned
BookCheck(items, item_id, quantity) ==
    IF item_id \notin DOMAIN items THEN NoSuchItem
    ELSE IF NotEnough(items[item_id], quantity) THEN NotEnoughAmount
    ELSE Ok

\* UPDATE items SET amount = amount - ? WHERE id = ?
BookUpdateItems(items, item_id, quantity) ==
    [items EXCEPT ![item_id] = @ - quantity]

\* INSERT INTO bookings (item_id, amount, confirmed) VALUES (?, ?, 0)
BookInsert(bks, id, item_id, quantity) ==
    [x \in DOMAIN bks \cup {id} |->
        IF x = id
        THEN [item_id |-> item_id, amount |-> quantity, confirmed |-> 0]
        ELSE bks[x]]

\* the rowid of a table whose ids are not kept apart from the deleted ones:
\* one more than the largest id the table holds
LastRowIdReused(s) ==
    IF DOMAIN bookings = {} THEN 1
    ELSE 1 + CHOOSE m \in DOMAIN bookings : \A b \in DOMAIN bookings : b <= m

\* the booking_id the INSERT assigns (cursor.lastrowid).  The bookings schema
\* (schema.sql) is not part of the source file; ids are taken as the design
\* states them, unique and assigned at creation: one more than the highest
\* id ever assigned, also after rows were deleted.
LastRowId(s) == s + 1

\* cancel() answering without a look at what cancel_booking returned
CancelAnswerUnchecked(w) == Ok

\* what cancel() answers for w rows changed
CancelAnswer(w) == IF w > 0 THEN Ok ELSE NotCancelable

\* confirm_booking answering without a look at total_changes
ConfirmAnswerUnchecked(w) == Ok

\* what confirm_booking() answers for w rows changed
ConfirmAnswer(w) == IF w > 0 THEN Ok ELSE NotConfirmable

\* ---- the state after "store_server.py -init" ----
Init ==
    /\ amount = [i \in Items |-> InitAmount]
    /\ bookings = << >>
    /\ seq = 0
    /\ inflight = EmptyBag
    /\ tasks = [b \in BookingIds |-> 0]
    /\ wins = [b \in BookingIds |-> << >>]
    /\ fired = [b \in BookingIds |-> 0]
    /\ journal = NoJournal
    /\ surfaced = NoError

\* ---- POST /booking ----

\* the ids still to be assigned cover the handlers that may still insert
Updating == {h \in BagToSet(inflight) : h.pc \in {"update", "insert"}}
RoomForBooking ==
    seq + BagCardinality([h \in Updating |-> CopiesIn(h, inflight)]) < MaxBookings

Enter(h) == inflight (+) SetToBag({h})
Move(h, g) == (inflight (-) SetToBag({h})) (+) SetToBag({g})
Leave(h) == inflight (-) SetToBag({h})

\* make_booking, from the request to the SELECT and the two checks on its
\* row: the handler goes on to its transaction when the answer is not a 400
MakeBookingSelect(item_id, quantity) ==
    /\ IF BookCheck(amount, item_id, quantity) = Ok
       THEN /\ RoomForBooking
            /\ inflight' = Enter(Handler("update", item_id, quantity, amount[item_id], 0))
       ELSE UNCHANGED inflight
    /\ UNCHANGED <<amount, bookings, seq, tasks, wins, fired, journal, surfaced>>

\* make_booking with a connection in autocommit mode: the UPDATE is
\* committed as soon as it has run
MakeBookingUpdateAutocommit(h) ==
    /\ BagIn(h, inflight)
    /\ h.pc = "update"
    /\ journal = NoJournal
    /\ amount' = BookUpdateItems(amount, h.item_id, h.quantity)
    /\ journal' = BookUpdateItems(amount, h.item_id, h.quantity)
    /\ inflight' = Move(h, [h EXCEPT !.pc = "insert"])
    /\ UNCHANGED <<bookings, seq, tasks, wins, fired, surfaced>>

\* make_booking, the UPDATE: it waits for the write lock, opens the
\* transaction and writes the new amount into it
MakeBookingUpdate(h) ==
    /\ BagIn(h, inflight)
    /\ h.pc = "update"
    /\ journal = NoJournal
    /\ journal' = BookUpdateItems(amount, h.item_id, h.quantity)
    /\ inflight' = Move(h, [h EXCEPT !.pc = "insert"])
    /\ UNCHANGED <<amount, bookings, seq, tasks, wins, fired, surfaced>>

\* make_booking, the INSERT and the commit of both statements
MakeBookingCommit(h) ==
    /\ BagIn(h, inflight)
    /\ h.pc = "insert"
    /\ amount' = journal
    /\ bookings' = BookInsert(bookings, LastRowId(seq), h.item_id, h.quantity)
    /\ seq' = LastRowId(seq)
    /\ journal' = NoJournal
    /\ inflight' = Move(h, [h EXCEPT !.pc = "arm", !.booking_id = LastRowId(seq)])
    /\ UNCHANGED <<tasks, wins, fired, surfaced>>

\* make_booking handing check_booking the item's id, not the booking's
MakeBookingArmItem(h) ==
    /\ BagIn(h, inflight)
    /\ h.pc = "arm"
    /\ tasks' = [tasks EXCEPT ![h.item_id] = @ + 1]
    /\ inflight' = Leave(h)
    /\ UNCHANGED <<amount, bookings, seq, wins, fired, journal, surfaced>>

\* make_booking answering without handing check_booking to the loop
MakeBookingArmNothing(h) ==
    /\ BagIn(h, inflight)
    /\ h.pc = "arm"
    /\ inflight' = Leave(h)
    /\ UNCHANGED <<amount, bookings, seq, tasks, wins, fired, journal, surfaced>>

\* make_booking, handing check_booking to the loop and answering
MakeBookingArm(h) ==
    /\ BagIn(h, inflight)
    /\ h.pc = "arm"
    /\ tasks' = [tasks EXCEPT ![h.booking_id] = @ + 1]
    /\ inflight' = Leave(h)
    /\ UNCHANGED <<amount, bookings, seq, wins, fired, journal, surfaced>>

\* cancel_booking without its DELETE statement
CancelBookingNoDelete(b, op) ==
    /\ journal = NoJournal
    /\ amount' = CancelUpdateItems(amount, bookings, b)
    /\ bookings' = bookings
    /\ wins' = IF CancelChanges(amount, bookings, b) > 0
               THEN [wins EXCEPT ![b] = Append(@, op)]
               ELSE wins

\* ---- cancel_booking(booking_id): one transaction ----
CancelBooking(b, op) ==
    /\ journal = NoJournal
    /\ amount' = CancelUpdateItems(amount, bookings, b)
    /\ bookings' = CancelDelete(bookings, b)
    /\ wins' = IF CancelChanges(amount, bookings, b) > 0
               THEN [wins EXCEPT ![b] = Append(@, op)]
               ELSE wins

\* what POST /cancel_booking answers in a state of the database
CancelResponse(items, bks, b) == CancelAnswer(CancelChanges(items, bks, b))

\* what POST /confirm_booking answers in a state of the database
ConfirmResponse(bks, b) == ConfirmAnswer(ConfirmChanges(bks, b))

\* POST /cancel_booking
Cancel(b) ==
    /\ CancelBooking(b, "cancel")
    /\ UNCHANGED <<seq, inflight, tasks, fired, journal, surfaced>>

\* check_booking going back to sleep after its cancel_booking
ExpireRepeats(b) ==
    /\ tasks[b] > 0
    /\ tasks' = tasks
    /\ fired' = [fired EXCEPT ![b] = @ + 1]
    /\ CancelBooking(b, "expire")
    /\ UNCHANGED <<seq, inflight, journal, surfaced>>

\* check_booking waking up after its sleep; its return value goes nowhere
Expire(b) ==
    /\ tasks[b] > 0
    /\ tasks' = [tasks EXCEPT ![b] = @ - 1]
    /\ fired' = [fired EXCEPT ![b] = @ + 1]
    /\ CancelBooking(b, "expire")
    /\ UNCHANGED <<seq, inflight, journal, surfaced>>

\* POST /confirm_booking
Confirm(b) ==
    /\ journal = NoJournal
    /\ bookings' = ConfirmUpdate(bookings, b)
    /\ wins' = IF ConfirmChanges(bookings, b) > 0
               THEN [wins EXCEPT ![b] = Append(@, "confirm")]
               ELSE wins
    /\ UNCHANGED <<amount, seq, inflight, tasks, fired, journal, surfaced>>

Next ==
    \/ \E i \in ReqItems, q \in Quantities : MakeBookingSelect(i, q)
    \/ \E h \in BagToSet(inflight) : MakeBookingUpdate(h)
    \/ \E h \in BagToSet(inflight) : MakeBookingCommit(h)
    \/ \E h \in BagToSet(inflight) : MakeBookingArm(h)
    \/ \E b \in BookingIds : Cancel(b)
    \/ \E b \in BookingIds : Expire(b)
    \/ \E b \in BookingIds : Confirm(b)

Spec == Init /\ [][Next]_vars

\* ---- the threads keep running ----
\* Flask's handler threads run to their end and the loop thread wakes every
\* coroutine it was handed once the coroutine's sleep is over.
FairSpec ==
    /\ Spec
    /\ WF_vars(\E h \in BagToSet(inflight) : MakeBookingUpdate(h))
    /\ WF_vars(\E h \in BagToSet(inflight) : MakeBookingCommit(h))
    /\ WF_vars(\E h \in BagToSet(inflight) : MakeBookingArm(h))
    /\ \A b \in BookingIds : WF_vars(Expire(b))

\* ---- execute() or commit() raising ----
\* No function catches the exception: the connection is dropped with its
\* transaction, which rolls the transaction back, and the exception leaves
\* the handler after the one time the statement was issued.

\* make_booking: its UPDATE raises, or its INSERT or its commit does
MakeBookingFail(h) ==
    /\ BagIn(h, inflight)
    /\ h.pc \in {"update", "insert"}
    /\ journal' = IF h.pc = "insert" THEN NoJournal ELSE journal
    /\ inflight' = Leave(h)
    /\ surfaced' = StorageError("book", h.pc)
    /\ UNCHANGED <<amount, bookings, seq, tasks, wins, fired>>

\* POST /cancel_booking: cancel_booking raises
CancelFail ==
    /\ surfaced' = StorageError("cancel", "none")
    /\ UNCHANGED <<amount, bookings, seq, inflight, tasks, wins, fired, journal>>

\* POST /confirm_booking: its UPDATE or its commit raises
ConfirmFail ==
    /\ surfaced' = StorageError("confirm", "none")
    /\ UNCHANGED <<amount, bookings, seq, inflight, tasks, wins, fired, journal>>

\* check_booking: cancel_booking raises and the coroutine ends with it
ExpireFail(b) ==
    /\ tasks[b] > 0
    /\ tasks' = [tasks EXCEPT ![b] = @ - 1]
    /\ fired' = [fired EXCEPT ![b] = @ + 1]
    /\ surfaced' = StorageError("expire", "none")
    /\ UNCHANGED <<amount, bookings, seq, inflight, wins, journal>>

\* a run in which make_booking's transaction may fail
BookFaultNext ==
    \/ Next
    \/ \E h \in BagToSet(inflight) : MakeBookingFail(h)

SpecBookFault == Init /\ [][BookFaultNext]_vars

\* a run in which every operation's statements may fail
FaultNext ==
    \/ BookFaultNext
    \/ CancelFail
    \/ ConfirmFail
    \/ \E b \in BookingIds : ExpireFail(b)

SpecFaults == Init /\ [][FaultNext]_vars

\* ---- the process ends and store_server.py is started again ----
\* store.db is kept, an open transaction is rolled back, the handlers and
\* the loop with its coroutines are gone; __main__ starts a new, empty loop.
Restart ==
    /\ inflight' = EmptyBag
    /\ journal' = NoJournal
    /\ tasks' = [b \in BookingIds |-> 0]
    /\ UNCHANGED <<amount, bookings, seq, wins, fired, surfaced>>

RestartNext ==
    \/ Next
    \/ Restart

SpecRestart == Init /\ [][RestartNext]_vars

\* ---- what the bookings table holds ----

\* the rows of an item that are pending or confirmed
Holding(bks, i) ==
    {b \in DOMAIN bks : bks[b].item_id = i /\ bks[b].confirmed \in {0, 1}}

RECURSIVE SumAmount(_, _)
SumAmount(bks, S) ==
    IF S = {} THEN 0
    ELSE LET b == CHOOSE x \in S : TRUE
         IN bks[b].amount + SumAmount(bks, S \ {b})

\* cancel_booking has given the amount of booking b back
Released(b) == \E k \in DOMAIN wins[b] : wins[b][k] \in {"cancel", "expire"}

\* booking b was resolved: one of cancel, confirm, expiry changed rows
Resolved(b) == Len(wins[b]) > 0

\* ---- C1 ----
\* C1: in every reachable state, for every item, the available amount plus
\* the quantities of the item's pending and confirmed bookings is the amount
\* the item started with.
Conservation ==
    \A i \in Items :
        amount[i] + SumAmount(bookings, Holding(bookings, i)) = InitAmount

\* one booking confirmed and holding stock, another given back by the timer
ConservationWitness ==
    \E i \in Items, b1 \in DOMAIN bookings, b2 \in BookingIds :
        /\ bookings[b1].item_id = i
        /\ bookings[b1].confirmed = 1
        /\ bookings[b1].amount = 1
        /\ wins[b2] = <<"expire">>
        /\ amount[i] = InitAmount - 1

\* ---- C2 ----
\* C2: the stock check and the decrement of make_booking act as one step,
\* so no item's available amount is ever negative.
NoOverAllocation == \A i \in Items : amount[i] >= 0

\* ---- C3 ----
\* C3: a booking is resolved at most once; once its timer has run (so that
\* every one of cancel, confirm and expiry that was issued for it has had
\* its turn or will find it resolved) it was resolved exactly once; and
\* whoever comes after the winner is answered not cancelable / not
\* confirmable, with zero rows changed.
SingleResolution ==
    \A b \in BookingIds :
        /\ Len(wins[b]) <= 1
        /\ fired[b] >= 1 => Len(wins[b]) = 1
        /\ Resolved(b) =>
              /\ CancelChanges(amount, bookings, b) = 0
              /\ CancelResponse(amount, bookings, b) = NotCancelable
              /\ ConfirmChanges(bookings, b) = 0
              /\ ConfirmResponse(bookings, b) = NotConfirmable

\* confirm won the race and the timer, coming later, changed nothing
SingleResolutionWitness ==
    \E b \in DOMAIN bookings :
        /\ wins[b] = <<"confirm">>
        /\ fired[b] = 1
        /\ bookings[b].confirmed = 1

\* ---- C4 ----
\* C4: the first cancel or expiry of a pending booking adds the booking's
\* quantity to its item; a cancel or expiry of a booking that was already
\* released adds nothing.
IdempotentRelease ==
    [][\A b \in BookingIds :
         (Cancel(b) \/ Expire(b)) =>
            IF Released(b)
            THEN amount' = amount /\ wins' = wins
            ELSE IsPending(bookings, b) =>
                    /\ amount' = [amount EXCEPT ![bookings[b].item_id] =
                                                  @ + bookings[b].amount]
                    /\ Released(b)']_vars

\* a manual cancel released the booking and the timer ran afterwards
IdempotentReleaseWitness ==
    \E b \in BookingIds :
        /\ wins[b] = <<"cancel">>
        /\ fired[b] = 1
        /\ \A i \in Items : amount[i] = InitAmount

\* ---- C5 ----
\* C5: a booking request for more than the item has is answered "not enough
\* amount"; no handler goes on to a transaction, so no booking is made, no
\* timer is armed and the amount stays.
NoOverReservation ==
    /\ [](\A i \in Items, q \in Quantities :
            q > amount[i] => BookCheck(amount, i, q) = NotEnoughAmount)
    /\ [][\A i \in Items, q \in Quantities :
            (q > amount[i] /\ MakeBookingSelect(i, q)) =>
                UNCHANGED <<amount, bookings, seq, inflight, tasks>>]_vars

\* an item all of whose stock is booked, so that a request for 1 is refused
NoOverReservationWitness ==
    \E i \in Items :
        /\ amount[i] = 0
        /\ BookCheck(amount, i, 1) = NotEnoughAmount

\* ---- C6 ----
\* C6: a booking request for q with 0 < q <= a, a being the amount its
\* SELECT read, goes through; its transaction makes exactly one new pending
\* booking of quantity q and takes exactly q from the item; with q = a it
\* leaves the item at 0, and a request for 1 is then refused.
ExactBooking ==
    /\ [](\A i \in Items, q \in Quantities :
            /\ (0 < q /\ q <= amount[i]) => BookCheck(amount, i, q) = Ok
            /\ amount[i] = 0 => BookCheck(amount, i, 1) = NotEnoughAmount)
    /\ [][\A h \in BagToSet(inflight) :
            (MakeBookingCommit(h) /\ 0 < h.quantity /\ h.quantity <= h.res) =>
                /\ amount' = [amount EXCEPT ![h.item_id] = @ - h.quantity]
                /\ DOMAIN bookings' = DOMAIN bookings \cup {seq'}
                /\ seq' \notin DOMAIN bookings
                /\ bookings'[seq'] = [item_id |-> h.item_id,
                                      amount |-> h.quantity, confirmed |-> 0]
                /\ \A b \in DOMAIN bookings : bookings'[b] = bookings[b]
                /\ h.quantity = h.res => amount'[h.item_id] = 0]_vars

\* ---- C7 ----
\* C7: make_booking turns away a quantity that is zero or negative, so
\* every booking in the table has a positive quantity.
PositiveQuantity == \A b \in DOMAIN bookings : bookings[b].amount > 0

\* ---- C8 ----
\* C8: a confirmed booking stays in the table as it is; a cancel, confirm
\* or expiry for it changes neither the table nor any amount, and cancel
\* and confirm are answered not cancelable / not confirmable.
ConfirmedIsTerminal ==
    /\ [](\A b \in DOMAIN bookings :
            bookings[b].confirmed = 1 =>
                /\ CancelChanges(amount, bookings, b) = 0
                /\ CancelResponse(amount, bookings, b) = NotCancelable
                /\ ConfirmChanges(bookings, b) = 0
                /\ ConfirmResponse(bookings, b) = NotConfirmable)
    /\ [][\A b \in DOMAIN bookings :
            bookings[b].confirmed = 1 =>
                /\ b \in DOMAIN bookings'
                /\ bookings'[b] = bookings[b]
                /\ (Cancel(b) \/ Confirm(b) \/ Expire(b)) =>
                        UNCHANGED <<amount, bookings, wins>>]_vars

\* a confirmed booking whose timer has run and which still holds its stock
ConfirmedIsTerminalWitness ==
    \E b \in DOMAIN bookings :
        /\ bookings[b].confirmed = 1
        /\ bookings[b].amount = InitAmount
        /\ fired[b] = 1 /\ tasks[b] = 0
        /\ amount[bookings[b].item_id] = 0

\* ---- C9 ----
\* C9: the cancel of a pending booking gives exactly the booking's quantity
\* back to its item and removes the booking; from then on, whatever else
\* happens, a cancel or confirm for that booking_id changes no row and is
\* answered not cancelable / not confirmable.
CanceledForGood ==
    /\ [][\A b \in BookingIds :
            (Cancel(b) /\ IsPending(bookings, b)) =>
                /\ amount' = [amount EXCEPT ![bookings[b].item_id] =
                                              @ + bookings[b].amount]
                /\ b \notin DOMAIN bookings'
                /\ wins'[b] = <<"cancel">>]_vars
    /\ [](\A b \in BookingIds :
            (\E k \in DOMAIN wins[b] : wins[b][k] = "cancel") =>
                /\ b \notin DOMAIN bookings
                /\ CancelChanges(amount, bookings, b) = 0
                /\ CancelResponse(amount, bookings, b) = NotCancelable
                /\ ConfirmChanges(bookings, b) = 0
                /\ ConfirmResponse(bookings, b) = NotConfirmable)

\* a canceled booking, with a later booking pending on the stock it gave back
CanceledForGoodWitness ==
    \E b \in BookingIds, c \in DOMAIN bookings :
        /\ wins[b] = <<"cancel">>
        /\ c > b
        /\ bookings[c].confirmed = 0
        /\ bookings[c].amount = InitAmount
        /\ amount[bookings[c].item_id] = 0

\* ---- C10 ----
\* C10: when the timer of a booking that is still pending runs, the booking
\* leaves the table and its quantity goes back to its item; a confirm that
\* comes after the expiry changes no row and is answered not confirmable.
AutoExpiry ==
    /\ [][\A b \in BookingIds :
            (Expire(b) /\ IsPending(bookings, b)) =>
                /\ amount' = [amount EXCEPT ![bookings[b].item_id] =
                                              @ + bookings[b].amount]
                /\ b \notin DOMAIN bookings'
                /\ wins'[b] = <<"expire">>]_vars
    /\ [](\A b \in BookingIds :
            (\E k \in DOMAIN wins[b] : wins[b][k] = "expire") =>
                /\ b \notin DOMAIN bookings
                /\ ConfirmChanges(bookings, b) = 0
                /\ ConfirmResponse(bookings, b) = NotConfirmable)

\* the only booking made was expired by its timer and the stock is back
AutoExpiryWitness ==
    \E b \in BookingIds :
        /\ wins[b] = <<"expire">>
        /\ fired[b] = 1
        /\ seq = b
        /\ bookings = << >>
        /\ \A i \in Items : amount[i] = InitAmount

\* ---- C11 ----
\* an id that make_booking has given out: its row is in the table, or an
\* operation on it has changed rows, or its timer is armed or has run, or
\* its handler is about to arm the timer
GivenOut(b) ==
    \/ b \in DOMAIN bookings
    \/ Resolved(b)
    \/ tasks[b] > 0
    \/ fired[b] > 0
    \/ \E h \in BagToSet(inflight) : h.pc = "arm" /\ h.booking_id = b

\* C11: every commit of make_booking inserts exactly one row, under an id
\* that was never given out before and that is larger than every id given
\* out before, also when rows of canceled bookings have been deleted.
UniqueIds ==
    [][\A h \in BagToSet(inflight) :
          MakeBookingCommit(h) =>
              \E id \in BookingIds :
                  /\ ~GivenOut(id)
                  /\ \A b \in BookingIds : GivenOut(b) => b < id
                  /\ DOMAIN bookings' = DOMAIN bookings \cup {id}
                  /\ \E g \in BagToSet(inflight') :
                         g.pc = "arm" /\ g.booking_id = id]_vars

\* a booking was canceled and its row deleted, and a later booking holds a
\* larger id
UniqueIdsWitness ==
    \E b, c \in BookingIds :
        /\ b < c
        /\ Released(b)
        /\ b \notin DOMAIN bookings
        /\ c \in DOMAIN bookings
        /\ bookings[c].confirmed = 0

\* ---- C12 ----
\* C12: make_booking is all-or-nothing, also when its statements may raise:
\* a step that inserts no row and deletes none leaves every amount as it
\* was, a step that inserts rows inserts one row and takes exactly its
\* quantity from its item, and a make_booking whose UPDATE, INSERT or commit
\* raises leaves the amounts and the bookings as they were.
AllOrNothing ==
    [][/\ DOMAIN bookings' = DOMAIN bookings => amount' = amount
       /\ \A id \in DOMAIN bookings' \ DOMAIN bookings :
              /\ DOMAIN bookings' = DOMAIN bookings \cup {id}
              /\ amount' = [amount EXCEPT ![bookings'[id].item_id] =
                                              @ - bookings'[id].amount]
       /\ \A h \in BagToSet(inflight) :
              MakeBookingFail(h) => UNCHANGED <<amount, bookings, seq, tasks>>]_vars

\* a make_booking has failed after its UPDATE, every item has its initial
\* amount and there is no booking
AllOrNothingWitness ==
    /\ surfaced = StorageError("book", "insert")
    /\ journal = NoJournal
    /\ inflight = EmptyBag
    /\ bookings = << >>
    /\ \A i \in Items : amount[i] = InitAmount

\* ---- C13 ----
\* C13: for a booking_id that names no row or a row that is not pending,
\* cancel and confirm change zero rows and answer with their 400
\* (NotCancelable, NotConfirmable), and the step of either leaves every
\* amount, every booking and the record of successful operations as it was.
NoOpOnMissing ==
    /\ [](\A b \in BookingIds :
             ~IsPending(bookings, b) =>
                 /\ CancelChanges(amount, bookings, b) = 0
                 /\ ConfirmChanges(bookings, b) = 0
                 /\ CancelResponse(amount, bookings, b) = NotCancelable
                 /\ ConfirmResponse(bookings, b) = NotConfirmable)
    /\ [][\A b \in BookingIds :
             (~IsPending(bookings, b) /\ (Cancel(b) \/ Confirm(b))) =>
                 UNCHANGED <<amount, bookings, wins>>]_vars

\* a request can name a confirmed booking and it can name a canceled and
\* deleted one, with no transaction open
NoOpOnMissingWitness ==
    /\ journal = NoJournal
    /\ \E b, c \in BookingIds :
           /\ b \in DOMAIN bookings
           /\ bookings[b].confirmed = 1
           /\ c \notin DOMAIN bookings
           /\ Released(c)
           /\ CancelResponse(amount, bookings, b) = NotCancelable
           /\ ConfirmResponse(bookings, c) = NotConfirmable

\* ---- C14 ----
\* the check_booking coroutine of booking b is on the loop, or the handler
\* that created b is about to put it there
Armed(b) ==
    \/ tasks[b] > 0
    \/ \E h \in BagToSet(inflight) : h.pc = "arm" /\ h.booking_id = b

\* C14: while the threads keep running, every pending booking has its
\* expiry armed, and every pending booking eventually stops being pending
\* (it is confirmed, or canceled and deleted).
EventuallyResolved ==
    /\ [](\A b \in BookingIds : IsPending(bookings, b) => Armed(b))
    /\ \A b \in BookingIds :
           IsPending(bookings, b) ~> ~IsPending(bookings, b)

\* a booking that nobody confirmed or canceled has left the pending state
\* through its timer, and its timer is gone
EventuallyResolvedWitness ==
    \E b \in BookingIds :
        /\ wins[b] = <<"expire">>
        /\ ~IsPending(bookings, b)
        /\ ~Armed(b)
        /\ fired[b] = 1

\* ---- C15 ----
\* C15: when the server is started again, every booking that is still
\* pending has a timer armed again.
RestartRearms ==
    [][Restart =>
          \A b \in BookingIds : IsPending(bookings', b) => tasks'[b] > 0]_vars

\* ---- C16 ----
\* C16: a booking whose creation was committed has exactly one timer, armed
\* or already run, once its handler has answered, and none before; an id
\* without a committed creation has none; no timer runs twice; the arming
\* step arms the one timer of the handler's own booking, and a make_booking
\* that answers 400 arms nothing.
OneTimerPerBooking ==
    /\ [](\A b \in BookingIds :
             /\ fired[b] <= 1
             /\ tasks[b] + fired[b] =
                    IF b <= seq /\ ~(\E h \in BagToSet(inflight) :
                                        h.pc = "arm" /\ h.booking_id = b)
                    THEN 1 ELSE 0)
    /\ [][/\ \A h \in BagToSet(inflight) :
              MakeBookingArm(h) => tasks' = [tasks EXCEPT ![h.booking_id] = 1]
          /\ \A i \in ReqItems, q \in Quantities :
              (BookCheck(amount, i, q) # Ok /\ MakeBookingSelect(i, q)) =>
                  tasks' = tasks]_vars

\* every make_booking has answered; one booking's timer has run and another
\* booking's timer is armed
OneTimerPerBookingWitness ==
    /\ inflight = EmptyBag
    /\ \E b, c \in BookingIds :
           /\ fired[b] = 1 /\ tasks[b] = 0
           /\ fired[c] = 0 /\ tasks[c] = 1

\* ---- C17 ----
\* C17: an exception of the database that ends a book, a cancel or a confirm
\* reaches the caller only after the failed statement was issued again at
\* least once.
RetriedBeforeSurfacing ==
    surfaced.op \in {"book", "cancel", "confirm"} => surfaced.tries > 1

\* ---- C18 ----
\* C18: a timer cancels only the booking whose creation armed it.  When a
\* row is inserted, no timer is armed or about to be armed under its id and
\* none has run under it; the arming step arms the id its own handler
\* inserted, and that row, while it exists, is the handler's; so a timer
\* that cancels a pending booking is the first and only one of that id.
\* (Time is not part of the state: "before its own delay" is read as "by a
\* timer armed before the booking was created".)
TimerOwnBooking ==
    [][/\ \A id \in DOMAIN bookings' \ DOMAIN bookings :
              /\ ~Armed(id)
              /\ fired[id] = 0
       /\ \A h \in BagToSet(inflight) :
              MakeBookingArm(h) =>
                  /\ tasks' = [tasks EXCEPT ![h.booking_id] = @ + 1]
                  /\ h.booking_id \in DOMAIN bookings =>
                         /\ bookings[h.booking_id].item_id = h.item_id
                         /\ bookings[h.booking_id].amount = h.quantity
       /\ \A b \in BookingIds :
              (IsPending(bookings, b) /\ Expire(b)) =>
                  /\ tasks[b] = 1
                  /\ fired[b] = 0
                  /\ \A c \in BookingIds \ {b} :
                         IsPending(bookings, c) => IsPending(bookings', c)]_vars

\* an earlier booking was canceled by a request and deleted while its timer
\* is still to run, and a later booking is pending with its own timer
TimerOwnBookingWitness ==
    \E b, c \in BookingIds :
        /\ b < c
        /\ wins[b] = <<"cancel">>
        /\ b \notin DOMAIN bookings
        /\ tasks[b] = 1
        /\ IsPending(bookings, c)
        /\ tasks[c] = 1

\* ---- C19 ----
\* the rows other than b's, and the amounts of the items other than i
OtherRows(bks, b) == [c \in DOMAIN bks \ {b} |-> bks[c]]
OtherAmounts(items, i) == [j \in DOMAIN items \ {i} |-> items[j]]

\* C19: a cancel, a confirm or an expiry for booking_id b leaves every row
\* but b's as it was and inserts none; when b has a row the amounts of all
\* items but b's item stay, and when it has none all amounts stay; a
\* confirm leaves every amount as it was.
Frame ==
    [][\A b \in BookingIds :
          (Cancel(b) \/ Confirm(b) \/ Expire(b)) =>
              /\ OtherRows(bookings', b) = OtherRows(bookings, b)
              /\ IF b \in DOMAIN bookings
                 THEN OtherAmounts(amount', bookings[b].item_id)
                          = OtherAmounts(amount, bookings[b].item_id)
                 ELSE amount' = amount
              /\ Confirm(b) => amount' = amount]_vars

\* one booking was canceled and deleted, its item has its initial amount
\* again, and the other booking, for the other item, is still pending with
\* its quantity taken from that item
FrameWitness ==
    \E b, c \in BookingIds, i, j \in Items :
        /\ i # j
        /\ Released(b)
        /\ b \notin DOMAIN bookings
        /\ amount[i] = InitAmount
        /\ IsPending(bookings, c)
        /\ bookings[c].item_id = j
        /\ bookings[c].amount = 1
        /\ amount[j] = InitAmount - 1

====
